---- MODULE Spec2Model ----
(***************************************************************************)
(* A model of todo.py: the task list with its derived urgency fields       *)
(* (Task.complete_fields), the recurring-task generation pass              *)
(* (check_and_generate_recurring_tasks) and the add/edit handlers of the   *)
(* main menu.                                                              *)
(*                                                                         *)
(* Conventions.  Instants are whole epoch seconds.  A Python float that is *)
(* not an instant (hours, days, percentages) is an exact rational          *)
(* [num, den] in lowest terms with den > 0.  An attribute that may be None *)
(* holds the empty tuple for None and the one-element tuple <<v>> for a    *)
(* value v.  A dictionary loaded from JSON is a function whose DOMAIN is   *)
(* the set of keys present.                                                *)
(***************************************************************************)
EXTENDS Integers, Sequences, FiniteSets, TLC

VARIABLES
    now,            \* the value time.time() returns
    hours_per_day,  \* the global of that name
    tasks,          \* the in-memory task list of main_menu
    tasks_file,     \* the content of TASKS_FILE
    templates,      \* the content of RECURRING_TEMPLATES_FILE
    pc,             \* "running": between operations; "edit_name" .. "edit_due_date": at that prompt of edit_task;
                    \* "crashed": ended by an uncaught exception; "hung": in a loop that never exits
    editing,        \* the position in tasks of the task edit_task holds, 0 outside edit_task
    scheduled,      \* history: per template, the scheduling instant of its most recently generated task
    last            \* history: what the most recent operation was given and what it did

vars == <<now, hours_per_day, tasks, tasks_file, templates, pc, editing, scheduled, last>>

----------------------------------------------------------------------------
(* Bounds of the model *)

MaxTicks == 2
MaxTemplates == 2
MaxTasks == 2
PanicScale == 1000
PanicGrid == 4
MaxMenuTasks == 1

(* Constants of the program *)

DAY == 86400
HOUR == 3600
safety_interval_days == 10
max_panic == 10

----------------------------------------------------------------------------
(* None / value *)

None == <<>>
Some(v) == <<v>>
Val(o) == o[1]

(* dict.get(key, default) *)
Get(d, key, default) == IF key \in DOMAIN d THEN d[key] ELSE default

----------------------------------------------------------------------------
(* Float arithmetic, exact *)

Abs(a) == IF a < 0 THEN -a ELSE a

RECURSIVE Gcd(_, _)
Gcd(a, b) == IF b = 0 THEN a ELSE Gcd(b, a % b)

Rat(n, d) ==
    LET g == Gcd(Abs(n), Abs(d))
        s == IF d < 0 THEN -1 ELSE 1
    IN  [num |-> (s * n) \div g, den |-> (s * d) \div g]

FromInt(i) == [num |-> i, den |-> 1]
Zero == FromInt(0)
One == FromInt(1)

RAdd(a, b) == Rat(a.num * b.den + b.num * a.den, a.den * b.den)
RSub(a, b) == Rat(a.num * b.den - b.num * a.den, a.den * b.den)
RMul(a, b) == Rat(a.num * b.num, a.den * b.den)
RDiv(a, b) == Rat(a.num * b.den, a.den * b.num)
RLess(a, b) == a.num * b.den < b.num * a.den
RLeq(a, b) == a.num * b.den <= b.num * a.den
RMax(a, b) == IF RLess(a, b) THEN b ELSE a

(* The largest r in lo..hi with r * r <= n *)
RECURSIVE IsqrtIn(_, _, _)
IsqrtIn(n, lo, hi) ==
    IF lo >= hi THEN lo
    ELSE LET mid == (lo + hi + 1) \div 2
         IN  IF mid * mid <= n THEN IsqrtIn(n, mid, hi) ELSE IsqrtIn(n, lo, mid - 1)

(* x ** 1.5 for x >= 0.  Below 1 the result is rounded down to a multiple  *)
(* of 1/PanicScale (x * sqrt(x), the root taken to 1/PanicScale).  From 1  *)
(* on, x ** 1.5 >= x >= 1 and the caller uses only max(0, 1 - x ** 1.5),   *)
(* which is 0 for every such value: x itself stands for the power.         *)
Pow15(x) ==
    IF RLeq(One, x) THEN x
    ELSE LET root == IsqrtIn((PanicScale * PanicScale * x.num) \div x.den, 0, PanicScale)
         IN  Rat((x.num * root) \div x.den, PanicScale)

(* Truth value of an optional number in an `if` *)
TruthyInstant(o) == o # None /\ Val(o) # 0
TruthyFloat(o) == o # None /\ Val(o).num # 0

----------------------------------------------------------------------------
(* class Task *)

Task(name) ==
    [name |-> name,
     type |-> None,
     due_date |-> None,
     remaining_days |-> None,
     estimated_hours |-> None,
     progress |-> Zero,
     percent_time_required |-> None,
     panic_factor |-> None]

(* The effort left, with the progress made forgotten *)
remaining_hours_ignoring_progress(task) == Val(task.estimated_hours)

(* line 98 *)
remaining_hours_of(task) ==
    RMul(Val(task.estimated_hours), RSub(One, RDiv(task.progress, FromInt(100))))

(* lines 99-102; remaining_days is the attribute, None or a value *)
percent_of(remaining_hours, remaining_days, hpd) ==
    IF TruthyFloat(remaining_days) /\ RLess(Zero, Val(remaining_days))
    THEN RMul(RDiv(remaining_hours, RMul(Val(remaining_days), FromInt(hpd))), FromInt(100))
    ELSE IF RLess(Zero, remaining_hours) THEN FromInt(100) ELSE Zero

(* lines 103-114 *)
panic_of(remaining_hours, remaining_days, hpd) ==
    LET needed_days == IF hpd # 0 THEN RDiv(remaining_hours, FromInt(hpd)) ELSE Zero
        ratio0 ==
            IF RLess(Zero, needed_days) /\ TruthyFloat(remaining_days)
            THEN RDiv(Val(remaining_days), needed_days)
            ELSE Zero
        ratio1 == RMax(Zero, RSub(ratio0, One))
        ratio2 == RDiv(ratio1, FromInt(safety_interval_days - 1))
        ratio3 == RMax(Zero, RSub(One, Pow15(ratio2)))
    IN  RMul(ratio3, FromInt(max_panic))

(* Task.complete_fields, at time t and with hours_per_day = hpd *)
complete_fields(task, hpd, t) ==
    LET remaining_days ==
            IF TruthyInstant(task.due_date)
            THEN Some(Rat(Val(task.due_date) - t, DAY))
            ELSE task.remaining_days
        t1 == [task EXCEPT !.remaining_days = remaining_days]
    IN  IF task.estimated_hours # None /\ RLess(Zero, Val(task.estimated_hours))
        THEN
            LET remaining_hours == remaining_hours_of(task)
            IN  IF TruthyFloat(remaining_days) /\ RLess(Zero, Val(remaining_days)) /\ hpd = 0
                THEN t1  \* ZeroDivisionError at line 100, caught at line 118
                ELSE [t1 EXCEPT
                        !.percent_time_required =
                            Some(percent_of(remaining_hours, remaining_days, hpd)),
                        !.panic_factor =
                            Some(panic_of(remaining_hours, remaining_days, hpd))]
        ELSE [t1 EXCEPT !.percent_time_required = Some(Zero),
                        !.panic_factor = Some(Zero)]

(* update_dates *)
update_dates(ts, hpd, t) == [i \in 1..Len(ts) |-> complete_fields(ts[i], hpd, t)]

----------------------------------------------------------------------------
(* check_and_generate_recurring_tasks *)

(* template[key] = v *)
SetKey(d, key, v) == [k \in DOMAIN d \cup {key} |-> IF k = key THEN v ELSE d[k]]

is_enabled_always(template) == TRUE

(* line 441 *)
is_enabled(template) == Get(template, "enabled", TRUE)

(* lines 444-447; the frequency is in whole hours *)
freq_sec_of(template) == Get(template, "frequency", 24) * HOUR

(* The first instant without the seeding of lines 450-451 *)
first_next_time_unseeded(template, t) ==
    Get(template, "last_creation_date", 0) + freq_sec_of(template)

(* lines 448-452 *)
first_next_time(template, t) ==
    LET stored == Get(template, "last_creation_date", 0)
        last_creation == IF stored = 0 THEN t - freq_sec_of(template) ELSE stored
    IN  last_creation + freq_sec_of(template)

(* lines 456-462: the task generated for next_time *)
recurring_task(template, next_time, hpd, t) ==
    LET due_date == next_time - (next_time % DAY) + DAY
    IN  complete_fields(
            [Task(Get(template, "name", "Recurring Task")) EXCEPT
                !.type = Get(template, "type", Some("recurring")),
                !.estimated_hours = Some(Get(template, "estimated_hours", Rat(1667, 100000))),
                !.due_date = Some(due_date)],
            hpd, t)

RECURSIVE generate_before_now(_, _, _, _, _)
generate_before_now(template, next_time, hpd, t, acc) ==
    IF next_time < t
    THEN generate_before_now(template, next_time + freq_sec_of(template), hpd, t,
            Append(acc, [at |-> next_time,
                         task |-> recurring_task(template, next_time, hpd, t)]))
    ELSE [emitted |-> acc, next_time |-> next_time]

(* lines 454-465: the while loop.  acc holds the tasks appended so far,    *)
(* each with the next_time it was generated for (history).                 *)
RECURSIVE generate(_, _, _, _, _)
generate(template, next_time, hpd, t, acc) ==
    IF next_time <= t
    THEN generate(template, next_time + freq_sec_of(template), hpd, t,
            Append(acc, [at |-> next_time,
                         task |-> recurring_task(template, next_time, hpd, t)]))
    ELSE [emitted |-> acc, next_time |-> next_time]

(* The while loop never exits: next_time <= now and it does not grow *)
never_exits(template, t) ==
    /\ is_enabled(template)
    /\ freq_sec_of(template) <= 0
    /\ first_next_time(template, t) <= t

watermark_stale(template, next_time, t) == Get(template, "last_creation_date", 0)

watermark_now(template, next_time, t) == t

(* line 467: the new last_creation_date *)
watermark(template, next_time, t) ==
    IF next_time > t THEN next_time - freq_sec_of(template) ELSE t

(* lines 440-467: one iteration of the for loop *)
process_template(template, hpd, t) ==
    IF ~is_enabled(template)
    THEN [template |-> template, emitted |-> <<>>]
    ELSE LET g == generate(template, first_next_time(template, t), hpd, t, <<>>)
         IN  [template |-> SetKey(template, "last_creation_date",
                                  watermark(template, g.next_time, t)),
              emitted |-> g.emitted]

RECURSIVE Flatten(_)
Flatten(seqs) == IF seqs = <<>> THEN <<>> ELSE Head(seqs) \o Flatten(Tail(seqs))

(* lines 436-469.  templates: the list in memory when the function ends;   *)
(* emitted: per template, what its loop appended; updated: the flag that   *)
(* decides whether the list is saved.                                      *)
check_and_generate_recurring_tasks(tpls, hpd, t) ==
    LET r == [i \in 1..Len(tpls) |-> process_template(tpls[i], hpd, t)]
    IN  [templates |-> [i \in 1..Len(tpls) |-> r[i].template],
         emitted |-> [i \in 1..Len(tpls) |-> r[i].emitted],
         updated |-> \E i \in 1..Len(tpls) : r[i].emitted # <<>>]

----------------------------------------------------------------------------
(* Text typed at a prompt *)

(* float(text): the texts that parse, with their values; any other text    *)
(* raises ValueError.                                                      *)
Numerals == {"0", "2", "4", "50", "150"}
float(text) ==
    CASE text = "0" -> Zero
      [] text = "2" -> FromInt(2)
      [] text = "4" -> FromInt(4)
      [] text = "50" -> FromInt(50)
      [] text = "150" -> FromInt(150)

(* A text typed at a numeric prompt that float() raises ValueError on; the *)
(* empty text stands for the prompt's default                              *)
NotANumber(text) == text # "" /\ text \notin Numerals

(* str.lower() *)
Lower(text) ==
    CASE text = "Work" -> "work"
      [] OTHER -> text

(* The order of str values under <, as positions in this list *)
Alphabetical == <<"", "N/A", "Work", "a", "b", "chore", "recurring", "work">>
StrRank(text) == CHOOSE k \in 1..Len(Alphabetical) : Alphabetical[k] = text

----------------------------------------------------------------------------
(* Task.set_due_date; the local time zone is UTC *)

weekdays == <<"monday", "tuesday", "wednesday", "thursday", "friday", "saturday", "sunday">>

(* time.localtime(t).tm_wday: Monday is 0, and 1 January 1970 was a Thursday *)
tm_wday(t) == ((t \div DAY) + 3) % 7

(* What the branches of lines 53-83 assign to due_date, None when the      *)
(* input is rejected (lines 85-87, or an exception caught at line 89).     *)
parse_due_date(inp, t) ==
    CASE inp = "today" -> Some(t - (t % DAY) + DAY)
      [] inp = "tomorrow" -> Some(t - (t % DAY) + 2 * DAY)
      [] inp = "3 days" -> Some(t - (t % DAY) + 3 * DAY)     \* int("3")
      [] inp = "x days" -> None                              \* int("x"): ValueError
      [] inp = "next week" -> Some(t - (t % DAY) + 7 * DAY)
      [] \E k \in 1..7 : weekdays[k] = Lower(inp) ->
            LET target_weekday == (CHOOSE k \in 1..7 : weekdays[k] = Lower(inp)) - 1
                days_ahead == (target_weekday - tm_wday(t)) % 7
            IN  Some(t - (t % DAY) + (IF days_ahead = 0 THEN 7 ELSE days_ahead) * DAY)
      [] inp = "12/01/1970" -> Some(11 * DAY)                \* time.mktime
      [] inp = "12/x/1970" -> None                           \* int("x"): ValueError
      [] OTHER -> None                                       \* no separator, or not three parts

(* lines 51-90 *)
set_due_date(task, inp, hpd, t) ==
    IF parse_due_date(inp, t) = None
    THEN task
    ELSE complete_fields([task EXCEPT !.due_date = parse_due_date(inp, t)], hpd, t)

----------------------------------------------------------------------------
(* sort_tasks *)

(* getattr(task, key), numbers as floats *)
Attr(task, key) ==
    CASE key = "type" -> task.type
      [] key = "name" -> Some(task.name)
      [] key = "due_date" ->
            IF task.due_date = None THEN None ELSE Some(FromInt(Val(task.due_date)))
      [] key = "progress" -> Some(task.progress)
      [] OTHER -> task[key]

IsText(key) == key \in {"type", "name"}

(* normalize_value (lines 272-277): a str lowered, None as -inf *)
normalize_value(task, key) ==
    IF Attr(task, key) = None THEN [kind |-> "float", inf |-> TRUE, val |-> Zero, rank |-> 0]
    ELSE IF IsText(key)
    THEN [kind |-> "str", inf |-> FALSE, val |-> Zero,
          rank |-> StrRank(Lower(Val(Attr(task, key))))]
    ELSE [kind |-> "float", inf |-> FALSE, val |-> Val(Attr(task, key)), rank |-> 0]

(* a < b for two normalized values of one kind *)
ValueLess(a, b) ==
    IF a.kind = "str" THEN a.rank < b.rank
    ELSE IF a.inf THEN ~b.inf
    ELSE ~b.inf /\ RLess(a.val, b.val)

(* sort_key(x) < sort_key(y) for the tuples of lines 279-281 *)
KeyLess(x, y, primary_key, secondary_key) ==
    LET px == normalize_value(x, primary_key)
        py == normalize_value(y, primary_key)
    IN  IF px # py THEN ValueLess(px, py)
        ELSE ValueLess(normalize_value(x, secondary_key), normalize_value(y, secondary_key))

(* Comparing the keys of x and y raises TypeError: a str meets -inf at the *)
(* first place where the tuples differ.                                    *)
KeyRaises(x, y, primary_key, secondary_key) ==
    LET px == normalize_value(x, primary_key)
        py == normalize_value(y, primary_key)
        sx == normalize_value(x, secondary_key)
        sy == normalize_value(y, secondary_key)
    IN  IF px # py THEN px.kind # py.kind
        ELSE sx # sy /\ sx.kind # sy.kind

(* list.sort raises: a comparison sort compares every two elements that    *)
(* would be neighbours in the result, so it meets a pair that raises       *)
(* whenever the list holds one.                                            *)
sort_raises(ts, primary_key, secondary_key) ==
    \E i, j \in 1..Len(ts) : KeyRaises(ts[i], ts[j], primary_key, secondary_key)

(* list.sort(key=sort_key, reverse=True): descending and stable *)
RECURSIVE sort_tasks(_, _, _)
sort_tasks(ts, primary_key, secondary_key) ==
    IF ts = <<>> THEN <<>>
    ELSE LET \* the first element that no other element precedes
             IsTop(i) ==
                /\ \A j \in 1..Len(ts) : ~KeyLess(ts[i], ts[j], primary_key, secondary_key)
                /\ \A j \in 1..(i - 1) : KeyLess(ts[j], ts[i], primary_key, secondary_key)
             top == CHOOSE i \in 1..Len(ts) : IsTop(i)
         IN  <<ts[top]>> \o sort_tasks(SubSeq(ts, 1, top - 1) \o SubSeq(ts, top + 1, Len(ts)),
                                        primary_key, secondary_key)

----------------------------------------------------------------------------
(* display_tasks: the map from the numbers shown to the tasks *)

(* line 228 *)
Label(task) == IF task.type = None \/ task.type = Some("") THEN "N/A" ELSE Val(task.type)

(* lines 226-264: tasks_map[index], as a position of the list.  Groups are *)
(* shown in the order their first task appears in the list.                *)
tasks_map(ts, index) ==
    LET First(lab) == CHOOSE i \in 1..Len(ts) :
                        /\ Label(ts[i]) = lab
                        /\ \A j \in 1..(i - 1) : Label(ts[j]) # lab
        ShownBefore(q, p) ==
            \/ First(Label(ts[q])) < First(Label(ts[p]))
            \/ Label(ts[q]) = Label(ts[p]) /\ q < p
    IN  CHOOSE p \in 1..Len(ts) :
            Cardinality({q \in 1..Len(ts) : ShownBefore(q, p)}) = index - 1

----------------------------------------------------------------------------
(* add_task *)

(* lines 170-199: the task returned, None when the function returns None *)
add_task(name, task_type, estimated_hours_input, due_date, hpd, t) ==
    IF name = "" THEN None
    ELSE IF estimated_hours_input # "" /\ estimated_hours_input \notin Numerals THEN None
    ELSE LET t1 == [Task(name) EXCEPT
                        !.type = IF task_type # "" THEN Some(task_type) ELSE None,
                        !.estimated_hours =
                            IF estimated_hours_input # ""
                            THEN Some(float(estimated_hours_input)) ELSE None]
             t2 == IF due_date # "" THEN set_due_date(t1, due_date, hpd, t) ELSE t1
         IN  Some(complete_fields(t2, hpd, t))

----------------------------------------------------------------------------
(* edit_task: what each prompt of lines 349-382 does to the chosen task.   *)
(* An empty answer stands for the default.                                 *)

(* The progress prompt with an out-of-range number clamped to 0..100 *)
edit_progress_clamped(task, new_progress) ==
    IF new_progress \in Numerals
    THEN [task EXCEPT !.progress =
            RMax(Zero, IF RLess(FromInt(100), float(new_progress))
                       THEN FromInt(100) ELSE float(new_progress))]
    ELSE task

edit_progress_unchecked(task, new_progress) ==
    IF new_progress \in Numerals THEN [task EXCEPT !.progress = float(new_progress)] ELSE task

(* lines 349-350 *)
edit_name(task, new_name) ==
    IF new_name = "" THEN task ELSE [task EXCEPT !.name = new_name]

(* lines 351-352; the default is task.type or "" *)
edit_type(task, new_type) ==
    LET default == IF task.type = None THEN "" ELSE Val(task.type)
        answer == IF new_type = "" THEN default ELSE new_type
    IN  [task EXCEPT !.type = IF answer # "" THEN Some(answer) ELSE None]

(* lines 353-361; the default, str(estimated_hours), reads back as the     *)
(* same value, and an empty default skips the assignment                   *)
edit_estimated_hours(task, new_estimated_hours) ==
    IF new_estimated_hours \in Numerals
    THEN [task EXCEPT !.estimated_hours = Some(float(new_estimated_hours))]
    ELSE task

(* lines 362-374; the default, str(progress), reads back as the same      *)
(* value                                                                   *)
edit_progress(task, new_progress) ==
    IF new_progress \in Numerals
       /\ RLeq(Zero, float(new_progress)) /\ RLeq(float(new_progress), FromInt(100))
    THEN [task EXCEPT !.progress = float(new_progress)]
    ELSE task

(* lines 375-382: the last prompt, then complete_fields *)
edit_due_date(task, new_due_date, hpd, t) ==
    complete_fields(
        IF new_due_date # "" THEN set_due_date(task, new_due_date, hpd, t) ELSE task,
        hpd, t)

----------------------------------------------------------------------------
(* Inputs *)

(* The clock starts at T0, five hours into a day, and advances in steps of *)
(* twelve hours.                                                           *)
T0 == 10 * DAY + 5 * HOUR
TickStep == 12 * HOUR
Horizon == T0 + MaxTicks * TickStep

Midnight(t) == t - (t % DAY)

(* Due dates: none, overdue, within a day, within a week *)
DueDates == {None, Some(Midnight(T0)), Some(Midnight(T0) + DAY), Some(Midnight(T0) + 6 * DAY)}
Hours == {None, Some(Zero), Some(FromInt(8))}
Progresses == {Zero, FromInt(50), FromInt(100)}
HoursPerDay == {4, 8}

StoredTasks ==
    {[Task("a") EXCEPT !.due_date = d, !.estimated_hours = e, !.progress = p] :
        d \in DueDates, e \in Hours, p \in Progresses}

----------------------------------------------------------------------------
(* The clock *)

Tick ==
    /\ pc = "running"
    /\ now + TickStep <= Horizon
    /\ now' = now + TickStep
    /\ last' = [op |-> "tick"]
    /\ UNCHANGED <<hours_per_day, tasks, tasks_file, templates, pc, editing, scheduled>>

----------------------------------------------------------------------------
(* The urgency model on stored tasks: update_dates run on a loaded list *)

UpdateDates ==
    /\ pc = "running"
    /\ tasks' = update_dates(tasks, hours_per_day, now)
    /\ last' = [op |-> "update_dates", before |-> tasks]
    /\ UNCHANGED <<now, hours_per_day, tasks_file, templates, pc, editing, scheduled>>

InitUrgency ==
    /\ now = T0
    /\ hours_per_day \in HoursPerDay
    /\ tasks \in {<<a, b>> : a \in StoredTasks, b \in StoredTasks}
    /\ tasks_file = tasks
    /\ templates = <<>>
    /\ pc = "running"
    /\ editing = 0
    /\ scheduled = <<>>
    /\ last = [op |-> "init"]

NextUrgency == UpdateDates \/ Tick

SpecUrgency == InitUrgency /\ [][NextUrgency]_vars

----------------------------------------------------------------------------
(* The set-hours handler of the menu, on a list as start-up leaves it *)

SetHoursInputs == {"", "0", "4", "abc"}

(* main_menu, choice "h" (lines 758-772).  The default answer is           *)
(* str(hours_per_day), which reads back as the same value; a text that is  *)
(* no number raises ValueError before anything is assigned.                *)
SetHours ==
    /\ pc = "running"
    /\ \E new_value \in SetHoursInputs :
          IF NotANumber(new_value)
          THEN /\ last' = [op |-> "set_hours", accepted |-> FALSE]
               /\ UNCHANGED <<hours_per_day, tasks, tasks_file>>
          ELSE /\ hours_per_day' = IF new_value = "" THEN hours_per_day
                                   ELSE float(new_value).num
               /\ tasks' = [i \in 1..Len(tasks) |->
                               complete_fields(tasks[i], hours_per_day', now)]
               /\ tasks_file' = tasks'
               /\ last' = [op |-> "set_hours", accepted |-> TRUE]
    /\ UNCHANGED <<now, templates, pc, editing, scheduled>>

InitHours ==
    /\ now = T0
    /\ hours_per_day \in HoursPerDay
    /\ \E a \in StoredTasks, b \in StoredTasks :
          tasks = update_dates(<<a, b>>, hours_per_day, now)
    /\ tasks_file = tasks
    /\ templates = <<>>
    /\ pc = "running"
    /\ editing = 0
    /\ scheduled = <<>>
    /\ last = [op |-> "init"]

NextHours == SetHours \/ Tick

SpecHours == InitHours /\ [][NextHours]_vars

----------------------------------------------------------------------------
(* The colour of a displayed task *)

(* int() of a float: truncation towards zero *)
int(x) == IF x.num >= 0 THEN x.num \div x.den ELSE -((-x.num) \div x.den)

RMin(a, b) == IF RLess(b, a) THEN b ELSE a

(* The colour without line 203 *)
panic_to_rgb_unclamped(panic) ==
    IF RLeq(panic, FromInt(5))
    THEN <<int(RMul(FromInt(255), RDiv(panic, FromInt(5)))), 255, 0>>
    ELSE <<255,
           int(RSub(FromInt(255),
                    RMul(FromInt(255), RDiv(RSub(panic, FromInt(5)), FromInt(5))))),
           0>>

(* panic_to_rgb (lines 202-214) *)
panic_to_rgb(panic) ==
    LET clamped == RMax(Zero, RMin(FromInt(10), panic))
    IN  IF RLeq(clamped, FromInt(5))
        THEN <<int(RMul(FromInt(255), RDiv(clamped, FromInt(5)))), 255, 0>>
        ELSE <<255,
               int(RSub(FromInt(255),
                        RMul(FromInt(255), RDiv(RSub(clamped, FromInt(5)), FromInt(5))))),
               0>>

(* Stored panic factors: from -2 to 12 in steps of 1/PanicGrid, or none *)
PanicFactors ==
    {None} \cup {Some(Rat(k, PanicGrid)) : k \in (-2 * PanicGrid)..(12 * PanicGrid)}

(* display_tasks, lines 250-251, for the first task of the list *)
DisplayTask ==
    /\ pc = "running"
    /\ tasks # <<>>
    /\ LET panic_level == IF TruthyFloat(tasks[1].panic_factor)
                          THEN Val(tasks[1].panic_factor) ELSE Zero
       IN  last' = [op |-> "panic_to_rgb", panic |-> panic_level,
                    rgb |-> panic_to_rgb(panic_level)]
    /\ UNCHANGED <<now, hours_per_day, tasks, tasks_file, templates, pc, editing, scheduled>>

InitColour ==
    /\ now = T0
    /\ hours_per_day = 8
    /\ \E f \in PanicFactors : tasks = <<[Task("a") EXCEPT !.panic_factor = f]>>
    /\ tasks_file = tasks
    /\ templates = <<>>
    /\ pc = "running"
    /\ editing = 0
    /\ scheduled = <<>>
    /\ last = [op |-> "init"]

NextColour == DisplayTask

SpecColour == InitColour /\ [][NextColour]_vars

----------------------------------------------------------------------------
(* The generation pass on the stored templates *)

(* A template as manage_recurring_tasks writes it (lines 525-531) *)
Template(enabled, frequency, last_creation_date) ==
    [name |-> "r",
     frequency |-> frequency,
     enabled |-> enabled,
     last_creation_date |-> last_creation_date,
     estimated_hours |-> Rat(1, 20)]

(* Three periods of 24 hours before the clock starts *)
Earlier == T0 - 3 * DAY

(* The template records of the file: written by the program, never         *)
(* generated or generated three days ago; disabled; carrying a type; with  *)
(* frequency 0; and a hand-written one with only a name and a frequency.   *)
TemplateSet ==
    {Template(TRUE, f, l) : f \in {12, 24}, l \in {0, Earlier}}
    \cup {Template(FALSE, 24, Earlier)}
    \cup {SetKey(Template(TRUE, 24, Earlier), "type", ty) :
            ty \in {None, Some(""), Some("chore")}}
    \cup {Template(TRUE, 0, 0)}
    \cup {[name |-> "r", frequency |-> 24]}

TasksOf(emitted) == [k \in 1..Len(emitted) |-> emitted[k].task]

Backfill ==
    /\ pc = "running"
    /\ IF \E i \in 1..Len(templates) : never_exits(templates[i], now)
       THEN /\ pc' = "hung"
            /\ last' = [op |-> "backfill_hung"]
            /\ UNCHANGED <<tasks, templates, scheduled>>
       ELSE LET r == check_and_generate_recurring_tasks(templates, hours_per_day, now)
            IN  /\ tasks' = tasks \o Flatten([i \in 1..Len(templates) |-> TasksOf(r.emitted[i])])
                /\ templates' = IF r.updated THEN r.templates ELSE templates
                /\ scheduled' =
                      [i \in 1..Len(templates) |->
                          IF r.emitted[i] = <<>> THEN scheduled[i]
                          ELSE Some(r.emitted[i][Len(r.emitted[i])].at)]
                /\ last' = [op |-> "backfill",
                            now |-> now,
                            tasks_before |-> tasks,
                            templates_before |-> templates,
                            templates_after |-> r.templates,
                            emitted |-> r.emitted,
                            first |-> IF last.op = "backfill" /\ last.now = now
                                      THEN Some([templates_before |-> last.templates_before,
                                                 emitted |-> last.emitted])
                                      ELSE None]
                /\ pc' = pc
    /\ UNCHANGED <<now, hours_per_day, tasks_file, editing>>

InitBackfill ==
    /\ now = T0
    /\ hours_per_day = 8
    /\ tasks = <<>>
    /\ tasks_file = <<>>
    /\ \E n \in 1..MaxTemplates : templates \in [1..n -> TemplateSet]
    /\ pc = "running"
    /\ editing = 0
    /\ scheduled = [i \in 1..Len(templates) |-> None]
    /\ last = [op |-> "init"]

NextBackfill == Backfill \/ Tick

SpecBackfill == InitBackfill /\ [][NextBackfill]_vars

----------------------------------------------------------------------------
(* The add and edit handlers of the menu *)

NameInputs == {"", "a"}
TypeInputs == {"", "Work"}
HoursInputs == {"", "2", "abc"}
DateInputs == {"", "today", "someday"}
ProgressInputs == {"", "50", "150", "abc"}

(* The inputs the program rejects *)
OutOfRange(text) == text \in {"150"}
DateRejected(text) == text \in {"someday"}

(* The history record of an operation.  rejected: the field whose input    *)
(* this step rejected, "" if none; invalid: an input of the operation was  *)
(* rejected; dirty: the operation changed the task list or the file.       *)
Done(op, rejected, invalid, dirty) ==
    [op |-> op, rejected |-> rejected, invalid |-> invalid, dirty |-> dirty]

(* main_menu, choice "a" (lines 738-744) *)
AddTask ==
    /\ pc = "running"
    /\ Len(tasks) < MaxTasks
    /\ \E name \in NameInputs, task_type \in TypeInputs,
          estimated_hours_input \in HoursInputs, due_date \in DateInputs :
          LET task == add_task(name, task_type, estimated_hours_input, due_date,
                               hours_per_day, now)
              appended == Append(tasks, Val(task))
              rejected == IF name = "" THEN ""
                          ELSE IF NotANumber(estimated_hours_input) THEN "estimated_hours"
                          ELSE IF DateRejected(due_date) THEN "due_date" ELSE ""
          IN  /\ last' = [Done("add", rejected, rejected # "", task # None)
                            EXCEPT !.op = "add"] @@ [task |-> task]
              /\ IF task = None
                 THEN UNCHANGED <<tasks, tasks_file, pc>>
                 ELSE IF sort_raises(appended, "type", "due_date")
                 THEN \* TypeError leaves main_menu before save_tasks
                      /\ pc' = "crashed"
                      /\ tasks' = <<>>
                      /\ UNCHANGED tasks_file
                 ELSE /\ tasks' = sort_tasks(appended, "type", "due_date")
                      /\ tasks_file' = tasks'
                      /\ pc' = pc
    /\ UNCHANGED <<now, hours_per_day, templates, editing, scheduled>>

(* main_menu, choice "e", and lines 336-348 of edit_task; index 0 stands   *)
(* for an answer that is no number of the table shown                      *)
EditChoose ==
    /\ pc = "running"
    /\ tasks # <<>>
    /\ \E index \in 0..Len(tasks) :
          IF index = 0
          THEN UNCHANGED <<pc, editing>>
          ELSE pc' = "edit_name" /\ editing' = tasks_map(tasks, index)
    /\ last' = Done("edit_task", "", FALSE, FALSE)
    /\ UNCHANGED <<now, hours_per_day, tasks, tasks_file, templates, scheduled>>

(* One prompt of edit_task: the task becomes `edited` *)
EditStep(op, next_pc, edited, rejected) ==
    /\ tasks' = [tasks EXCEPT ![editing] = edited]
    /\ pc' = next_pc
    /\ last' = Done(op, rejected, last.invalid \/ rejected # "",
                    last.dirty \/ edited # tasks[editing])
    /\ UNCHANGED <<now, hours_per_day, tasks_file, templates, editing, scheduled>>

(* lines 349-350 *)
EditName ==
    /\ pc = "edit_name"
    /\ \E new_name \in NameInputs :
          EditStep("edit_name", "edit_type", edit_name(tasks[editing], new_name), "")

(* lines 351-352 *)
EditType ==
    /\ pc = "edit_type"
    /\ \E new_type \in TypeInputs :
          EditStep("edit_type", "edit_estimated_hours",
                   edit_type(tasks[editing], new_type), "")

(* lines 353-361 *)
EditHours ==
    /\ pc = "edit_estimated_hours"
    /\ \E new_estimated_hours \in HoursInputs :
          EditStep("edit_estimated_hours", "edit_progress",
                   edit_estimated_hours(tasks[editing], new_estimated_hours),
                   IF NotANumber(new_estimated_hours) THEN "estimated_hours" ELSE "")

(* lines 362-374 *)
EditProgress ==
    /\ pc = "edit_progress"
    /\ \E new_progress \in ProgressInputs :
          EditStep("edit_progress", "edit_due_date",
                   edit_progress(tasks[editing], new_progress),
                   IF NotANumber(new_progress) \/ OutOfRange(new_progress)
                   THEN "progress" ELSE "")

(* lines 375-384: the last prompt, complete_fields and save_tasks *)
EditDueDate ==
    /\ pc = "edit_due_date"
    /\ \E new_due_date \in DateInputs :
          LET edited == edit_due_date(tasks[editing], new_due_date, hours_per_day, now)
              rejected == IF DateRejected(new_due_date) THEN "due_date" ELSE ""
          IN  /\ tasks' = [tasks EXCEPT ![editing] = edited]
              /\ tasks_file' = tasks'
              /\ last' = Done("edit_due_date", rejected, last.invalid \/ rejected # "",
                              last.dirty \/ edited # tasks[editing]
                                  \/ tasks_file' # tasks_file)
    /\ pc' = "running"
    /\ editing' = 0
    /\ UNCHANGED <<now, hours_per_day, templates, scheduled>>

InitEdit ==
    /\ now = T0
    /\ hours_per_day = 8
    /\ tasks = <<>>
    /\ tasks_file = <<>>
    /\ templates = <<>>
    /\ pc = "running"
    /\ editing = 0
    /\ scheduled = <<>>
    /\ last = [op |-> "init"]

NextEdit ==
    AddTask \/ EditChoose \/ EditName \/ EditType \/ EditHours \/ EditProgress \/ EditDueDate

SpecEdit == InitEdit /\ [][NextEdit]_vars

----------------------------------------------------------------------------
(* manage_recurring_tasks: the template-management operations, each ending *)
(* with save_recurring_templates, and the pass the next start-up runs      *)

FrequencyInputs == {"", "0", "4", "abc"}
TemplateHoursInputs == {"", "abc"}

(* lines 513-518: float(frequency), 24 for the default answer "24" and for *)
(* a text that is no number                                                *)
new_template_frequency(text) ==
    IF text = "" \/ NotANumber(text) THEN 24 ELSE float(text).num

(* lines 540-546: float(new_frequency); the default answer and a text that *)
(* is no number keep the template's frequency                              *)
modified_frequency(template, text) ==
    IF text = "" \/ NotANumber(text) THEN Get(template, "frequency", 24)
    ELSE float(text).num

Remove(seq, idx) == [k \in 1..(Len(seq) - 1) |-> IF k < idx THEN seq[k] ELSE seq[k + 1]]

(* choice "a" (lines 511-533); both answers for the estimated hours give   *)
(* the default 0.05                                                        *)
AddTemplate ==
    /\ pc = "running"
    /\ Len(templates) < MaxTemplates
    /\ \E frequency \in FrequencyInputs, estimated_hours \in TemplateHoursInputs :
          templates' = Append(templates, Template(TRUE, new_template_frequency(frequency), 0))
    /\ scheduled' = Append(scheduled, None)
    /\ last' = [op |-> "add_template"]
    /\ UNCHANGED <<now, hours_per_day, tasks, tasks_file, pc, editing>>

(* choice "m" (lines 534-558); index 0 stands for an invalid ID *)
ModifyTemplate ==
    /\ pc = "running"
    /\ \E index \in 0..Len(templates), new_frequency \in FrequencyInputs,
          new_estimated_hours \in TemplateHoursInputs :
          IF index = 0
          THEN UNCHANGED templates
          ELSE templates' =
                 [templates EXCEPT ![index] =
                    SetKey(SetKey(SetKey(@, "name", Get(@, "name", "")),
                                  "frequency", modified_frequency(@, new_frequency)),
                           "estimated_hours", Get(@, "estimated_hours", Rat(1667, 100000)))]
    /\ last' = [op |-> "modify_template"]
    /\ UNCHANGED <<now, hours_per_day, tasks, tasks_file, pc, editing, scheduled>>

(* choice "t" (lines 560-569) *)
ToggleTemplate ==
    /\ pc = "running"
    /\ \E index \in 0..Len(templates) :
          IF index = 0
          THEN UNCHANGED templates
          ELSE templates' = [templates EXCEPT ![index] =
                               SetKey(@, "enabled", ~Get(@, "enabled", TRUE))]
    /\ last' = [op |-> "toggle_template"]
    /\ UNCHANGED <<now, hours_per_day, tasks, tasks_file, pc, editing, scheduled>>

(* choice "d" (lines 570-578) *)
DeleteTemplate ==
    /\ pc = "running"
    /\ \E index \in 0..Len(templates) :
          IF index = 0
          THEN UNCHANGED <<templates, scheduled>>
          ELSE /\ templates' = Remove(templates, index)
               /\ scheduled' = Remove(scheduled, index)
    /\ last' = [op |-> "delete_template"]
    /\ UNCHANGED <<now, hours_per_day, tasks, tasks_file, pc, editing>>

(* The pass of the next start-up, while the list is shorter than MaxTasks *)
BackfillAtStartup == Len(tasks) < MaxTasks /\ Backfill

InitTemplates ==
    /\ now = T0
    /\ hours_per_day = 8
    /\ tasks = <<>>
    /\ tasks_file = <<>>
    /\ templates = <<>>
    /\ pc = "running"
    /\ editing = 0
    /\ scheduled = <<>>
    /\ last = [op |-> "init"]

NextTemplates ==
    \/ AddTemplate \/ ModifyTemplate \/ ToggleTemplate \/ DeleteTemplate
    \/ BackfillAtStartup
    \/ Tick

SpecTemplates == InitTemplates /\ [][NextTemplates]_vars

----------------------------------------------------------------------------
(* The menu with all the operations that create or change tasks: add,      *)
(* edit, set-hours and the generation pass, on a daily template            *)

(* The list start-up loads: empty, or one task with some progress made *)
LoadedLists ==
    {<<>>} \cup
    {update_dates(<<[Task("a") EXCEPT !.due_date = Some(Midnight(T0) + DAY),
                                     !.estimated_hours = Some(FromInt(8)),
                                     !.progress = p]>>, 8, T0) : p \in Progresses}

InitMenu ==
    /\ now = T0
    /\ hours_per_day = 8
    /\ tasks \in LoadedLists
    /\ tasks_file = tasks
    /\ templates = <<Template(TRUE, 24, 0)>>
    /\ pc = "running"
    /\ editing = 0
    /\ scheduled = <<None>>
    /\ last = [op |-> "init"]

(* The operations that lengthen the list, while it is shorter than         *)
(* MaxMenuTasks                                                            *)
AddTaskMenu == Len(tasks) < MaxMenuTasks /\ AddTask
BackfillMenu == Len(tasks) < MaxMenuTasks /\ Backfill

NextMenu ==
    \/ AddTaskMenu
    \/ EditChoose \/ EditName \/ EditType \/ EditHours \/ EditProgress \/ EditDueDate
    \/ SetHours
    \/ BackfillMenu

SpecMenu == InitMenu /\ [][NextMenu]_vars

----------------------------------------------------------------------------
(* Claims about the generation pass, checked under SpecBackfill *)

PassDone == last.op = "backfill"

StoredLast(template) == Get(template, "last_creation_date", 0)

(* C1: a pass that directly follows a pass with the same now appends no    *)
(* task, whatever the first pass generated.                                *)
C1_SecondPassAppendsNothing ==
    (PassDone /\ last.first # None) =>
        /\ tasks = last.tasks_before
        /\ \A i \in 1..Len(last.emitted) : last.emitted[i] = <<>>

(* C1's case: the second of two passes with the same now, the first of     *)
(* which generated the first task of a never-generated template.           *)
C1_Witness ==
    /\ PassDone
    /\ last.first # None
    /\ \E i \in 1..Len(templates) :
          LET before == Val(last.first).templates_before[i]
          IN  /\ is_enabled(before)
              /\ freq_sec_of(before) > 0
              /\ StoredLast(before) = 0
              /\ Len(Val(last.first).emitted[i]) = 1

(* C2: for an enabled template with frequency > 0 whose last_creation_date *)
(* L is set and L <= now, a pass appends exactly                           *)
(* floor((now - L) / (frequency*3600)) tasks, the k-th generated for       *)
(* L + k*frequency*3600 and due at the midnight that follows it, in that   *)
(* order; with frequency 24 and L = now - 3*86400 these are 3 tasks whose  *)
(* due dates increase by 86400.                                            *)
C2_CatchUp ==
    PassDone =>
        /\ tasks = last.tasks_before
                \o Flatten([i \in 1..Len(last.emitted) |-> TasksOf(last.emitted[i])])
        /\ \A i \in 1..Len(last.templates_before) :
              LET before == last.templates_before[i]
                  L == StoredLast(before)
                  period == Get(before, "frequency", 24) * 3600
                  out == last.emitted[i]
              IN  (is_enabled(before) /\ period > 0 /\ L # 0 /\ L <= last.now) =>
                    /\ Len(out) = (last.now - L) \div period
                    /\ \A k \in 1..Len(out) :
                          /\ out[k].at = L + k * period
                          /\ out[k].task.due_date # None
                          /\ Val(out[k].task.due_date) % 86400 = 0
                          /\ Val(out[k].task.due_date) > out[k].at
                          /\ Val(out[k].task.due_date) <= out[k].at + 86400
                    /\ (period = 86400 /\ L = last.now - 3 * 86400) =>
                          /\ Len(out) = 3
                          /\ \A k \in 1..2 :
                                Val(out[k + 1].task.due_date)
                                    = Val(out[k].task.due_date) + 86400

(* C2's case: a daily template last generated exactly three days before now *)
C2_Witness ==
    /\ PassDone
    /\ \E i \in 1..Len(last.templates_before) :
          /\ is_enabled(last.templates_before[i])
          /\ Get(last.templates_before[i], "frequency", 24) = 24
          /\ StoredLast(last.templates_before[i]) = last.now - 3 * 86400
          /\ Len(last.emitted[i]) = 3

C4_NothingDueSetsNow ==
    PassDone =>
        \A i \in 1..Len(last.templates_before) :
            LET before == last.templates_before[i]
            IN  (/\ is_enabled(before)
                 /\ StoredLast(before) # 0
                 /\ StoredLast(before) + Get(before, "frequency", 24) * 3600 > last.now)
                => StoredLast(last.templates_after[i]) = last.now

(* C8: a pass appends no task for a template whose enabled flag is false   *)
(* and leaves the template, last_creation_date included, as it was.        *)
C8_DisabledSkipped ==
    PassDone =>
        \A i \in 1..Len(last.templates_before) :
            (Get(last.templates_before[i], "enabled", TRUE) = FALSE) =>
                /\ last.emitted[i] = <<>>
                /\ last.templates_after[i] = last.templates_before[i]
                /\ templates[i] = last.templates_before[i]

(* C8's case: a disabled template three days behind, in a pass that        *)
(* generated for another template and saved the list.                      *)
C8_Witness ==
    /\ PassDone
    /\ \E i, j \in 1..Len(last.templates_before) :
          /\ Get(last.templates_before[i], "enabled", TRUE) = FALSE
          /\ StoredLast(last.templates_before[i]) = last.now - 3 * 86400
          /\ last.emitted[j] # <<>>
          /\ templates # last.templates_before

(* C10: every task a pass emits has a type that is neither None nor empty: *)
(* the template's type when it has one, "recurring" otherwise, also when   *)
(* the template carries a type key whose value is null or empty.           *)
C10_TypeAlwaysSet ==
    PassDone =>
        \A i \in 1..Len(last.emitted) : \A k \in 1..Len(last.emitted[i]) :
            LET before == last.templates_before[i]
                has_type == /\ "type" \in DOMAIN before
                            /\ before["type"] # None
                            /\ before["type"] # Some("")
                type == last.emitted[i][k].task.type
            IN  /\ type # None
                /\ type # Some("")
                /\ type = (IF has_type THEN before["type"] ELSE Some("recurring"))

----------------------------------------------------------------------------
(* Claims about the urgency model, checked under SpecUrgency *)

Computed == last.op = "update_dates"

(* needed_days of the claims: estimated_hours * (1 - progress/100) / hours_per_day *)
NeededDays(task) ==
    Rat(Val(task.estimated_hours).num * (100 * task.progress.den - task.progress.num),
        Val(task.estimated_hours).den * 100 * task.progress.den * hours_per_day)

(* C5: a task with no due_date has, after complete_fields, remaining_days, *)
(* percent_time_required and panic_factor all None, whatever its           *)
(* estimated_hours and progress.                                           *)
C5_NoDueDateAllAbsent ==
    Computed =>
        \A i \in 1..Len(tasks) :
            tasks[i].due_date = None =>
                /\ tasks[i].remaining_days = None
                /\ tasks[i].percent_time_required = None
                /\ tasks[i].panic_factor = None

(* C6: for tasks with a due_date (and hours_per_day > 0), panic_factor does *)
(* not increase when remaining_days grows at equal needed_days, nor when    *)
(* needed_days shrinks at equal remaining_days (down to needed_days = 0),   *)
(* and it is exactly 0 once remaining_days >= 10 * needed_days.             *)
C6_PanicMonotoneInSlack ==
    (Computed /\ hours_per_day > 0) =>
        LET S == {i \in 1..Len(tasks) :
                    tasks[i].due_date # None /\ tasks[i].estimated_hours # None}
        IN  /\ \A i \in S, j \in S :
                  (\/ /\ NeededDays(tasks[i]) = NeededDays(tasks[j])
                      /\ RLeq(Val(tasks[i].remaining_days), Val(tasks[j].remaining_days))
                   \/ /\ tasks[i].remaining_days = tasks[j].remaining_days
                      /\ RLeq(NeededDays(tasks[j]), NeededDays(tasks[i])))
                  => RLeq(Val(tasks[j].panic_factor), Val(tasks[i].panic_factor))
            /\ \A i \in S :
                  RLeq(RMul(FromInt(10), NeededDays(tasks[i])), Val(tasks[i].remaining_days))
                  => tasks[i].panic_factor = Some(Zero)

(* C7: for a task with a due_date, hours_per_day > 0 and progress in        *)
(* [0,100], complete_fields sets remaining_days to (due_date - now)/86400   *)
(* and percent_time_required to 0 when estimated_hours is absent or <= 0,   *)
(* else to remaining_hours/(remaining_days*hours_per_day)*100 when          *)
(* remaining_days > 0, else to 100 if remaining_hours > 0 and 0 otherwise,  *)
(* with remaining_hours = estimated_hours*(1 - progress/100).               *)
C7_PercentIsReference ==
    (Computed /\ hours_per_day > 0) =>
        \A i \in 1..Len(tasks) :
            LET task == tasks[i]
                due == Val(task.due_date)
                est == Val(task.estimated_hours)
                pct == Val(task.percent_time_required)
                \* estimated_hours * (100 - progress) / 100
                left == Rat(est.num * (100 * task.progress.den - task.progress.num),
                            est.den * 100 * task.progress.den)
            IN  task.due_date # None =>
                  /\ task.remaining_days # None
                  /\ Val(task.remaining_days).num * DAY
                        = (due - now) * Val(task.remaining_days).den
                  /\ task.percent_time_required # None
                  /\ IF task.estimated_hours = None \/ est.num <= 0
                     THEN pct = Zero
                     ELSE IF due > now
                     THEN \* pct * ((due - now)/86400) * hours_per_day = left * 100
                          RMul(RMul(pct, Rat(due - now, DAY)), FromInt(hours_per_day))
                            = RMul(left, FromInt(100))
                     ELSE pct = (IF left.num > 0 THEN FromInt(100) ELSE Zero)

(* C7's case: a half-done task with work left and days left has been computed *)
C7_Witness ==
    /\ Computed
    /\ \E i \in 1..Len(tasks) :
          /\ tasks[i].due_date # None /\ Val(tasks[i].due_date) > now
          /\ tasks[i].estimated_hours = Some(FromInt(8))
          /\ tasks[i].progress = FromInt(50)
          /\ RLess(Zero, Val(tasks[i].percent_time_required))
    /\ \E i \in 1..Len(tasks) :
          /\ tasks[i].due_date # None /\ Val(tasks[i].due_date) < now
          /\ tasks[i].estimated_hours = Some(FromInt(8))
          /\ tasks[i].percent_time_required = Some(FromInt(100))

----------------------------------------------------------------------------
(* Claims about add-task and edit-task, checked under SpecEdit *)

EditPrompts == {"edit_name", "edit_type", "edit_estimated_hours", "edit_progress",
                "edit_due_date"}

----------------------------------------------------------------------------
(* Claims about the set-hours operation, checked under SpecHours *)

(* The urgency formulas have a value for the task with hours_per_day = hpd *)
UrgencyDefined(task, hpd) ==
    ~(/\ hpd = 0
      /\ task.estimated_hours # None /\ RLess(Zero, Val(task.estimated_hours))
      /\ TruthyFloat(task.remaining_days) /\ RLess(Zero, Val(task.remaining_days)))

(* The task's stored percent_time_required and panic_factor are the        *)
(* urgency formulas evaluated with hours_per_day = hpd                     *)
StoredUrgencyIsFor(task, hpd) ==
    IF task.estimated_hours # None /\ RLess(Zero, Val(task.estimated_hours))
    THEN /\ UrgencyDefined(task, hpd)
         /\ task.percent_time_required
               = Some(percent_of(remaining_hours_of(task), task.remaining_days, hpd))
         /\ task.panic_factor
               = Some(panic_of(remaining_hours_of(task), task.remaining_days, hpd))
    ELSE /\ task.percent_time_required = Some(Zero)
         /\ task.panic_factor = Some(Zero)

(* C11: after the set-hours operation has accepted a value, every task's   *)
(* stored percent_time_required and panic_factor, in memory and in the     *)
(* file, are the urgency formulas evaluated with the new hours_per_day: no *)
(* task keeps values computed with the old setting.                        *)
C11_SetHoursRecomputesAll ==
    (last.op = "set_hours" /\ last.accepted) =>
        /\ tasks_file = tasks
        /\ \A i \in 1..Len(tasks) : StoredUrgencyIsFor(tasks[i], hours_per_day)

----------------------------------------------------------------------------
(* Claims about the colour mapping, checked under SpecColour *)

Clamp10(x) == IF RLess(x, Zero) THEN Zero ELSE IF RLess(FromInt(10), x) THEN FromInt(10) ELSE x

(* C12: panic_to_rgb returns for every input what it returns for the input *)
(* clamped to [0,10]; every component is an integer in [0,255]; and        *)
(* panic_to_rgb(0) = (0,255,0), panic_to_rgb(5) = (255,255,0),             *)
(* panic_to_rgb(10) = (255,0,0).                                           *)
C12_ColourClampedAndExact ==
    last.op = "panic_to_rgb" =>
        /\ last.rgb = panic_to_rgb(Clamp10(last.panic))
        /\ \A c \in 1..3 : last.rgb[c] \in 0..255
        /\ last.panic = Zero => last.rgb = <<0, 255, 0>>
        /\ last.panic = FromInt(5) => last.rgb = <<255, 255, 0>>
        /\ last.panic = FromInt(10) => last.rgb = <<255, 0, 0>>
        /\ RLeq(last.panic, Zero) => last.rgb = <<0, 255, 0>>
        /\ RLeq(FromInt(10), last.panic) => last.rgb = <<255, 0, 0>>

(* C12's case: the colour of an input above 10 has been computed, and is   *)
(* the colour of 10                                                        *)
C12_Witness ==
    /\ last.op = "panic_to_rgb"
    /\ RLess(FromInt(10), last.panic)
    /\ last.rgb = <<255, 0, 0>>

----------------------------------------------------------------------------
(* Further claims about the generation pass, checked under SpecBackfill *)

NeverGenerated(template) ==
    /\ is_enabled(template)
    /\ StoredLast(template) = 0
    /\ Get(template, "frequency", 24) > 0

(* C13: for an enabled template with frequency > 0 whose                   *)
(* last_creation_date is 0 or absent, a pass appends exactly one task,     *)
(* scheduled for now, whatever the frequency and whenever the pass runs,   *)
(* and sets last_creation_date to now.                                     *)
C13_FirstPassGeneratesOne ==
    PassDone =>
        \A i \in 1..Len(last.templates_before) :
            NeverGenerated(last.templates_before[i]) =>
                /\ Len(last.emitted[i]) = 1
                /\ last.emitted[i][1].at = last.now
                /\ StoredLast(last.templates_after[i]) = last.now
                /\ StoredLast(templates[i]) = last.now

(* C13's case: a never-generated template of frequency 12 and one whose    *)
(* record has no last_creation_date, in a pass later than the start        *)
C13_Witness ==
    /\ PassDone
    /\ last.now > T0
    /\ \E i, j \in 1..Len(last.templates_before) :
          /\ NeverGenerated(last.templates_before[i])
          /\ Get(last.templates_before[i], "frequency", 24) = 12
          /\ NeverGenerated(last.templates_before[j])
          /\ "last_creation_date" \notin DOMAIN last.templates_before[j]
          /\ Len(last.emitted[i]) = 1

(* The offsets of local time from UTC the program may run under: UTC,      *)
(* three hours east and five hours west.  The pass reads no local time, so *)
(* its behaviours are the same under each.                                 *)
UtcOffsets == {0, 3 * HOUR, -5 * HOUR}

(* The start of the local day that contains t *)
LocalDayStart(t, utc_offset) == t - ((t + utc_offset) % DAY)

(* C14: every task a pass emits for the scheduling instant next is due at  *)
(* the local midnight that ends the day containing next (next rounded down *)
(* to the start of its local day, plus one day), so that                   *)
(* next < due_date <= next + 86400 and due_date is a local-day boundary.   *)
C14_DueAtLocalMidnight ==
    PassDone =>
        \A utc_offset \in UtcOffsets :
            \A i \in 1..Len(last.emitted) : \A k \in 1..Len(last.emitted[i]) :
                LET next == last.emitted[i][k].at
                    due_date == Val(last.emitted[i][k].task.due_date)
                IN  /\ due_date = LocalDayStart(next, utc_offset) + 86400
                    /\ next < due_date
                    /\ due_date <= next + 86400
                    /\ (due_date + utc_offset) % 86400 = 0

----------------------------------------------------------------------------
(* Claims about the whole menu, checked under SpecMenu *)

ProgressInRange(ts) ==
    \A i \in 1..Len(ts) : RLeq(Zero, ts[i].progress) /\ RLeq(ts[i].progress, FromInt(100))

(* C15: through any sequence of add-task, edit-task, set-hours and         *)
(* generation passes, every task's progress, in memory and in the file, is *)
(* in [0,100]; an added task and a generated task start at 0; and an edit  *)
(* given a progress outside [0,100] or one that is no number keeps the     *)
(* task's progress, neither clamping nor storing the input.                *)
C15_ProgressStaysInRange ==
    /\ [](ProgressInRange(tasks) /\ ProgressInRange(tasks_file))
    /\ [][/\ (last'.op = "add" /\ last'.task # None) =>
                Val(last'.task).progress = Zero
          /\ last'.op = "backfill" =>
                \A i \in 1..Len(last'.emitted) : \A k \in 1..Len(last'.emitted[i]) :
                    last'.emitted[i][k].task.progress = Zero
          /\ (last'.op = "edit_progress" /\ last'.rejected = "progress") =>
                tasks'[editing].progress = tasks[editing].progress
         ]_vars

(* C15's case: after set-hours changed the setting, a task whose progress  *)
(* is 50 has been given 150, or a text that is no number, and has kept 50  *)
C15_Witness ==
    /\ last.op = "edit_progress"
    /\ last.rejected = "progress"
    /\ hours_per_day # 8
    /\ tasks[editing].progress = FromInt(50)

----------------------------------------------------------------------------
(* Claims about template management, checked under SpecTemplates *)

(* C16: every template the template-management operations (add, modify,   *)
(* toggle, delete) can store has frequency > 0, and so the generation pass *)
(* terminates on every such list: next_time grows strictly and exceeds now *)
(* after finitely many iterations.                                         *)
C16_PassTerminates ==
    /\ \A i \in 1..Len(templates) : Get(templates[i], "frequency", 24) > 0
    /\ pc # "hung"

----------------------------------------------------------------------------
(* Claims about sorting, checked under SpecEdit *)

(* C17: sort_tasks raises on no task list, lists that mix tasks with a     *)
(* type and tasks without one included, and leaves the tasks without a     *)
(* type next to one another; so the program is not ended by the sort that  *)
(* follows an add, and the task add-task returned is in the saved file.    *)
C17_SortNeverRaises ==
    /\ pc # "crashed"
    /\ (last.op = "add" /\ last.task # None) =>
          /\ \E q \in 1..Len(tasks_file) : tasks_file[q] = Val(last.task)
          /\ \A i, j, k \in 1..Len(tasks) :
                (i < j /\ j < k /\ tasks[i].type = None /\ tasks[k].type = None)
                    => tasks[j].type = None

====
